---- MODULE Spec2Model ----
(***************************************************************************)
(* Model of the SearchParams class (a fill for URLSearchParams).           *)
(*                                                                         *)
(* A JavaScript string is modelled as the sequence of its UTF-16 code      *)
(* units, e.g. "a=1" is <<97, 61, 49>>.  The Map held in this.params is a  *)
(* sequence of entries in insertion order; a value of the Map is either a  *)
(* string or a reference to an array object kept in a heap, so that the    *)
(* sharing of arrays between Maps and iterators is visible.                *)
(***************************************************************************)
EXTENDS Integers, Sequences, FiniteSets, TLC

VARIABLES
    original,   \* this.original: the query handed to the constructor
    params,     \* this.params: the Map, a sequence of entries in insertion order
    heap,       \* the array objects the Map's values refer to: id -> sequence of strings
    pc,         \* "new" before the constructor ran, "ready" after it returned, "threw" after it threw
    log,        \* the (key, value) arguments of the addValue calls made by parse, in call order
    iter,       \* the forEach call in progress: its context, its callback f, the parity of the rounds made, the entries() generator it consumes
    calls,      \* the arguments of the callback invocations made by the forEach call
    last,       \* the last public method called: its arguments, return value and entries() before it
    nops,       \* number of public method calls made so far
    cons,       \* a caller consuming a sequence obtained from entries(): its loop body f, its generator and what it yielded
    held,       \* the array a caller holds from a getAll call, what the caller expects it to hold, the store before the caller's last change
    recorded    \* the keys of the store in the order they were first recorded; whether sort() was called

vars == <<original, params, heap, pc, log, iter, calls, last, nops, cons, held, recorded>>

----------------------------------------------------------------------------
(* Characters the code names.                                              *)

QMARK == 63
AMP == 38
EQ == 61
PLUS == 43
SPACE == 32
PCT == 37
COMMA == 44

----------------------------------------------------------------------------
(* Results of operations that may throw.                                   *)

Ok(s) == [threw |-> FALSE, str |-> s]
URIError == [threw |-> TRUE, str |-> <<>>]

----------------------------------------------------------------------------
(* decodeURIComponent and encodeURIComponent (ECMA-262 Decode / Encode).   *)

HexVal(c) ==
    IF c >= 48 /\ c <= 57 THEN c - 48
    ELSE IF c >= 65 /\ c <= 70 THEN c - 55
    ELSE IF c >= 97 /\ c <= 102 THEN c - 87
    ELSE -1

\* The byte written as the two hex digits at positions k, k+1 of s; -1 when they are not hex digits.
ParseHexOctet(s, k) ==
    IF HexVal(s[k]) < 0 \/ HexVal(s[k + 1]) < 0 THEN -1
    ELSE 16 * HexVal(s[k]) + HexVal(s[k + 1])

\* Number of leading 1 bits of a byte.
LeadingOnes(B) ==
    IF B < 128 THEN 0
    ELSE IF B < 192 THEN 1
    ELSE IF B < 224 THEN 2
    ELSE IF B < 240 THEN 3
    ELSE IF B < 248 THEN 4
    ELSE 5

IsLeadSurrogate(c) == c >= 55296 /\ c <= 56319
IsTrailSurrogate(c) == c >= 56320 /\ c <= 57343

UTF16EncodeCodePoint(cp) ==
    IF cp < 65536 THEN <<cp>>
    ELSE <<55296 + ((cp - 65536) \div 1024), 56320 + ((cp - 65536) % 1024)>>

\* The n-1 continuation bytes "%XX" that follow the lead byte ending at k-1; <<-1>> when malformed.
RECURSIVE ContinuationOctets(_, _, _)
ContinuationOctets(s, k, j) ==
    IF j = 0 THEN <<>>
    ELSE IF k + 2 > Len(s) THEN <<-1>>
    ELSE IF s[k] # PCT THEN <<-1>>
    ELSE LET B == ParseHexOctet(s, k + 1)
             rest == ContinuationOctets(s, k + 3, j - 1)
         IN  IF B < 0 \/ (Len(rest) > 0 /\ rest[1] < 0) THEN <<-1>>
             ELSE <<B>> \o rest

\* The code point a lead byte B and its continuation bytes encode; -1 when they are not valid UTF-8.
UTF8CodePoint(B, cont) ==
    LET n == Len(cont) + 1
        allCont == \A i \in 1..Len(cont) : cont[i] >= 128 /\ cont[i] <= 191
        cp == IF n = 2 THEN (B - 192) * 64 + (cont[1] - 128)
              ELSE IF n = 3 THEN (B - 224) * 4096 + (cont[1] - 128) * 64 + (cont[2] - 128)
              ELSE (B - 240) * 262144 + (cont[1] - 128) * 4096 + (cont[2] - 128) * 64 + (cont[3] - 128)
        least == IF n = 2 THEN 128 ELSE IF n = 3 THEN 2048 ELSE 65536
    IN  IF ~allCont THEN -1
        ELSE IF cp < least \/ cp > 1114111 THEN -1
        ELSE IF cp >= 55296 /\ cp <= 57343 THEN -1
        ELSE cp

RECURSIVE Decode(_, _, _)
Decode(s, k, R) ==
    IF k > Len(s) THEN Ok(R)
    ELSE IF s[k] # PCT THEN Decode(s, k + 1, Append(R, s[k]))
    ELSE IF k + 2 > Len(s) THEN URIError
    ELSE LET B == ParseHexOctet(s, k + 1)
             n == LeadingOnes(B)
         IN  IF B < 0 THEN URIError
             ELSE IF n = 0 THEN Decode(s, k + 3, Append(R, B))
             ELSE IF n = 1 \/ n > 4 THEN URIError
             ELSE LET cont == ContinuationOctets(s, k + 3, n - 1)
                  IN  IF Len(cont) # n - 1 \/ cont[1] < 0 THEN URIError
                      ELSE LET cp == UTF8CodePoint(B, cont)
                           IN  IF cp < 0 THEN URIError
                               ELSE Decode(s, k + 3 * n, R \o UTF16EncodeCodePoint(cp))

decodeURIComponent(s) == Decode(s, 1, <<>>)

\* A-Z a-z 0-9 - _ . ! ~ * ' ( )
UnreservedURIComponent ==
    (48..57) \cup (65..90) \cup (97..122) \cup {45, 95, 46, 33, 126, 42, 39, 40, 41}

HexDigit(n) == IF n < 10 THEN 48 + n ELSE 55 + n

PctOctet(b) == <<PCT, HexDigit(b \div 16), HexDigit(b % 16)>>

UTF8Octets(cp) ==
    IF cp < 128 THEN <<cp>>
    ELSE IF cp < 2048 THEN <<192 + (cp \div 64), 128 + (cp % 64)>>
    ELSE IF cp < 65536 THEN
        <<224 + (cp \div 4096), 128 + ((cp \div 64) % 64), 128 + (cp % 64)>>
    ELSE <<240 + (cp \div 262144), 128 + ((cp \div 4096) % 64),
           128 + ((cp \div 64) % 64), 128 + (cp % 64)>>

RECURSIVE PctOctets(_)
PctOctets(bs) == IF bs = <<>> THEN <<>> ELSE PctOctet(Head(bs)) \o PctOctets(Tail(bs))

RECURSIVE Encode(_, _, _)
Encode(s, k, R) ==
    IF k > Len(s) THEN Ok(R)
    ELSE IF s[k] \in UnreservedURIComponent THEN Encode(s, k + 1, Append(R, s[k]))
    ELSE IF IsTrailSurrogate(s[k]) THEN URIError
    ELSE IF IsLeadSurrogate(s[k]) THEN
        IF k + 1 > Len(s) THEN URIError
        ELSE IF ~IsTrailSurrogate(s[k + 1]) THEN URIError
        ELSE Encode(s, k + 2,
                    R \o PctOctets(UTF8Octets((s[k] - 55296) * 1024 + (s[k + 1] - 56320) + 65536)))
    ELSE Encode(s, k + 1, R \o PctOctets(UTF8Octets(s[k])))

encodeURIComponent(s) == Encode(s, 1, <<>>)

----------------------------------------------------------------------------
(* String helpers of the JavaScript runtime.                               *)

\* s.replace(/\+/g, ' ')
replacePlus(s) == [i \in 1..Len(s) |-> IF s[i] = PLUS THEN SPACE ELSE s[i]]

\* s.split(sep) for a one-character separator: the pieces between separators, empty pieces kept.
RECURSIVE SplitFrom(_, _, _, _)
SplitFrom(s, sep, k, cur) ==
    IF k > Len(s) THEN <<cur>>
    ELSE IF s[k] = sep THEN <<cur>> \o SplitFrom(s, sep, k + 1, <<>>)
    ELSE SplitFrom(s, sep, k + 1, Append(cur, s[k]))

split(s, sep) == SplitFrom(s, sep, 1, <<>>)

\* s.split(sep, limit): the first `limit` pieces of s.split(sep); the rest is dropped.
splitLimit(s, sep, limit) ==
    LET all == split(s, sep)
    IN  IF Len(all) <= limit THEN all ELSE SubSeq(all, 1, limit)

\* parts.join(sep)
RECURSIVE join(_, _)
join(parts, sep) ==
    IF parts = <<>> THEN <<>>
    ELSE IF Len(parts) = 1 THEN parts[1]
    ELSE parts[1] \o <<sep>> \o join(Tail(parts), sep)

\* A comparison with its operands swapped, which sorts in descending order.
RECURSIVE strLessSwapped(_, _)
strLessSwapped(s, t) ==
    IF s = <<>> THEN FALSE
    ELSE IF t = <<>> THEN TRUE
    ELSE IF s[1] # t[1] THEN t[1] < s[1]
    ELSE strLessSwapped(Tail(s), Tail(t))

\* s < t as JavaScript compares strings: lexicographically by UTF-16 code units.
RECURSIVE strLess(_, _)
strLess(s, t) ==
    IF t = <<>> THEN FALSE
    ELSE IF s = <<>> THEN TRUE
    ELSE IF s[1] # t[1] THEN s[1] < t[1]
    ELSE strLess(Tail(s), Tail(t))

----------------------------------------------------------------------------
(* decode and encode of the module.                                        *)

\* decode with the two steps exchanged: percent-decoding first, then '+' to space.
decodePercentFirst(s) ==
    LET r == decodeURIComponent(s)
    IN  IF r.threw THEN r ELSE Ok(replacePlus(r.str))

decode(s) == decodeURIComponent(replacePlus(s))

encode(s) == encodeURIComponent(s)

----------------------------------------------------------------------------
(* The Map and the array heap.  A store S is [params, heap].               *)

ScalarValue(s) == [isArray |-> FALSE, str |-> s, ref |-> 0]
ArrayValue(id) == [isArray |-> TRUE, str |-> <<>>, ref |-> id]
MapEntry(key, val) == [key |-> key, isArray |-> val.isArray, str |-> val.str, ref |-> val.ref]

EmptyStore == [params |-> <<>>, heap |-> <<>>]

\* Position of key in the Map; 0 when the Map has no such key.
mapIndex(m, key) ==
    IF \E i \in 1..Len(m) : m[i].key = key
    THEN CHOOSE i \in 1..Len(m) : m[i].key = key
    ELSE 0

\* Map.prototype.has
mapHas(m, key) == mapIndex(m, key) # 0

\* Map.prototype.set: an existing key keeps its position, a new key goes last.
mapSet(m, key, val) ==
    LET i == mapIndex(m, key)
    IN  IF i = 0 THEN Append(m, MapEntry(key, val))
        ELSE [m EXCEPT ![i] = MapEntry(key, val)]

\* Map.prototype.delete: the remaining entries keep their order.
mapDelete(m, key) ==
    LET i == mapIndex(m, key)
    IN  IF i = 0 THEN m ELSE SubSeq(m, 1, i - 1) \o SubSeq(m, i + 1, Len(m))

\* A fresh array object: the least identifier not in use.
newArrayId(h) == CHOOSE id \in 1..(Cardinality(DOMAIN h) + 1) :
                     id \notin DOMAIN h /\ \A j \in 1..(id - 1) : j \in DOMAIN h

heapPut(h, id, arr) == [j \in (DOMAIN h) \cup {id} |-> IF j = id THEN arr ELSE h[j]]

----------------------------------------------------------------------------
(* Private and query methods of SearchParams.                              *)

\* addValue testing `if (existing)` instead of `existing !== undefined`: an
\* existing empty string is taken for no value and overwritten.
addValueIfTruthy(S, key, value) ==
    LET i == mapIndex(S.params, key)
    IN  IF i # 0 /\ (S.params[i].isArray \/ S.params[i].str # <<>>) THEN
            IF S.params[i].isArray
            THEN [S EXCEPT !.heap[S.params[i].ref] = Append(@, value)]
            ELSE [params |-> mapSet(S.params, key, ArrayValue(newArrayId(S.heap))),
                  heap |-> heapPut(S.heap, newArrayId(S.heap), <<S.params[i].str, value>>)]
        ELSE [S EXCEPT !.params = mapSet(S.params, key, ScalarValue(value))]

\* addValue giving a key that gets its second value a new place at the end of the Map.
addValueMovesKeyLast(S, key, value) ==
    LET i == mapIndex(S.params, key)
    IN  IF i # 0 THEN
            IF S.params[i].isArray
            THEN [S EXCEPT !.heap[S.params[i].ref] = Append(@, value)]
            ELSE LET id == newArrayId(S.heap)
                 IN  [params |-> mapSet(mapDelete(S.params, key), key, ArrayValue(id)),
                      heap |-> heapPut(S.heap, id, <<S.params[i].str, value>>)]
        ELSE [S EXCEPT !.params = mapSet(S.params, key, ScalarValue(value))]

addValue(S, key, value) ==
    LET i == mapIndex(S.params, key)
    IN  IF i # 0 THEN
            IF S.params[i].isArray
            THEN [S EXCEPT !.heap[S.params[i].ref] = Append(@, value)]
            ELSE LET id == newArrayId(S.heap)
                 IN  [params |-> mapSet(S.params, key, ArrayValue(id)),
                      heap |-> heapPut(S.heap, id, <<S.params[i].str, value>>)]
        ELSE [S EXCEPT !.params = mapSet(S.params, key, ScalarValue(value))]

\* The loop decoding the key of a segment without '=' as it decodes the other keys.
RECURSIVE parseVarsDecodingBareKey(_, _, _, _)
parseVarsDecodingBareKey(S, lg, segs, i) ==
    IF i > Len(segs) THEN [threw |-> FALSE, S |-> S, log |-> lg]
    ELSE LET kv == splitLimit(segs[i], EQ, 2)
             cleanKey == decode(kv[1])
             cleanValue == IF Len(kv) < 2 THEN Ok(<<>>) ELSE decode(kv[2])
         IN  IF cleanKey.threw \/ cleanValue.threw
             THEN [threw |-> TRUE, S |-> S, log |-> lg]
             ELSE parseVarsDecodingBareKey(addValue(S, cleanKey.str, cleanValue.str),
                                           Append(lg, <<cleanKey.str, cleanValue.str>>), segs, i + 1)

\* The loop over the segments of the query, from segment i on.
RECURSIVE parseVars(_, _, _, _)
parseVars(S, lg, segs, i) ==
    IF i > Len(segs) THEN [threw |-> FALSE, S |-> S, log |-> lg]
    ELSE LET kv == splitLimit(segs[i], EQ, 2)
             key == kv[1]
         IN  IF Len(kv) < 2
             THEN parseVars(addValue(S, key, <<>>), Append(lg, <<key, <<>>>>), segs, i + 1)
             ELSE LET cleanKey == decode(key)
                      cleanValue == decode(kv[2])
                  IN  IF cleanKey.threw \/ cleanValue.threw
                      THEN [threw |-> TRUE, S |-> S, log |-> lg]
                      ELSE parseVars(addValue(S, cleanKey.str, cleanValue.str),
                                     Append(lg, <<cleanKey.str, cleanValue.str>>), segs, i + 1)

\* query.startsWith('?') ? query.substring(1) : query
trimQuery(query) ==
    IF Len(query) > 0 /\ query[1] = QMARK THEN SubSeq(query, 2, Len(query)) ELSE query

parse(S, query) ==
    LET q == trimQuery(query)
    IN  IF Len(q) = 0 THEN [threw |-> FALSE, S |-> S, log |-> <<>>]
        ELSE parseVars(S, <<>>, split(q, AMP), 1)

\* The pairs one Map entry yields.
entryPairs(S, e) ==
    IF e.isArray THEN [j \in 1..Len(S.heap[e.ref]) |-> <<e.key, S.heap[e.ref][j]>>]
    ELSE << <<e.key, e.str>> >>

RECURSIVE entriesFrom(_, _)
entriesFrom(S, i) ==
    IF i > Len(S.params) THEN <<>>
    ELSE entryPairs(S, S.params[i]) \o entriesFrom(S, i + 1)

\* Array.from(this.entries()): the generator consumed in one go.
entries(S) == entriesFrom(S, 1)

\* has testing the value for truth, as get does: a stored empty string counts as absent.
hasTruthyValue(S, key) ==
    /\ mapHas(S.params, key)
    /\ (S.params[mapIndex(S.params, key)].isArray \/ S.params[mapIndex(S.params, key)].str # <<>>)

has(S, key) == mapHas(S.params, key)

\* The value get returns: a string or null.
JSNull == [isNull |-> TRUE, str |-> <<>>]
JSString(s) == [isNull |-> FALSE, str |-> s]

get(S, key) ==
    LET i == mapIndex(S.params, key)
    IN  IF i = 0 THEN JSNull
        ELSE IF ~S.params[i].isArray /\ S.params[i].str = <<>> THEN JSNull
        ELSE IF S.params[i].isArray THEN
            IF Len(S.heap[S.params[i].ref]) = 0 THEN JSString(<<>>)
            ELSE JSString(S.heap[S.params[i].ref][1])
        ELSE JSString(S.params[i].str)

getAll(S, key) ==
    LET i == mapIndex(S.params, key)
    IN  IF i = 0 THEN <<>>
        ELSE IF ~S.params[i].isArray /\ S.params[i].str = <<>> THEN <<>>
        ELSE IF ~S.params[i].isArray THEN <<S.params[i].str>>
        ELSE S.heap[S.params[i].ref]

\* getAll returning the array the Map holds instead of a copy of it.
getAllNoSlice(S, key) ==
    LET i == mapIndex(S.params, key)
        id == newArrayId(S.heap)
    IN  IF i # 0 /\ S.params[i].isArray THEN [heap |-> S.heap, ref |-> S.params[i].ref]
        ELSE [heap |-> heapPut(S.heap, id, getAll(S, key)), ref |-> id]

\* The array object getAll returns: [], [value] and value.slice() are all new arrays.
getAllObject(S, key) ==
    LET id == newArrayId(S.heap)
    IN  [heap |-> heapPut(S.heap, id, getAll(S, key)), ref |-> id]

RECURSIVE encodeParts(_, _)
encodeParts(es, i) ==
    IF i > Len(es) THEN [threw |-> FALSE, parts |-> <<>>]
    ELSE LET k == encode(es[i][1])
             v == encode(es[i][2])
             rest == encodeParts(es, i + 1)
         IN  IF k.threw \/ v.threw \/ rest.threw THEN [threw |-> TRUE, parts |-> <<>>]
             ELSE [threw |-> FALSE, parts |-> <<k.str \o <<EQ>> \o v.str>> \o rest.parts]

toString(S) ==
    LET r == encodeParts(entries(S), 1)
    IN  IF r.threw THEN URIError ELSE Ok(join(r.parts, AMP))

----------------------------------------------------------------------------
(* Values a caller may hand to set and append, and String(value).          *)

JSStr(s) == [t |-> "string", s |-> s, n |-> 0, a |-> <<>>]
JSNum(n) == [t |-> "number", s |-> <<>>, n |-> n, a |-> <<>>]
JSArr(a) == [t |-> "array", s |-> <<>>, n |-> 0, a |-> a]
JSUndefined == [t |-> "undefined", s |-> <<>>, n |-> 0, a |-> <<>>]

\* The decimal digits of a non-negative integer.
RECURSIVE digits(_)
digits(n) == IF n < 10 THEN <<48 + n>> ELSE digits(n \div 10) \o <<48 + (n % 10)>>

\* String(value): a string is itself, an integer its decimal form (with a leading '-' when
\* negative), an array of strings its elements joined by commas.
String(v) ==
    IF v.t = "string" THEN v.s
    ELSE IF v.t = "number" THEN (IF v.n < 0 THEN <<45>> \o digits(0 - v.n) ELSE digits(v.n))
    ELSE IF v.t = "array" THEN join(v.a, COMMA)
    ELSE <<117, 110, 100, 101, 102, 105, 110, 101, 100>>   \* "undefined"

----------------------------------------------------------------------------
(* Public mutating methods, as functions of the store.                     *)

append(S, key, value) == addValue(S, key, String(value))

\* set adding to the values of the key instead of replacing them.
setKeepsOldValues(S, key, value) == addValue(S, key, String(value))

\* set removing the key and adding it anew, which puts a key already present last.
setMovesKeyLast(S, key, value) ==
    [S EXCEPT !.params = Append(mapDelete(S.params, key), MapEntry(key, ScalarValue(String(value))))]

set(S, key, value) == [S EXCEPT !.params = mapSet(S.params, key, ScalarValue(String(value)))]

\* delete removing only the first value of a key that has several.
deleteFirstValue(S, key) ==
    LET i == mapIndex(S.params, key)
    IN  IF i # 0 /\ S.params[i].isArray /\ Len(S.heap[S.params[i].ref]) >= 2
        THEN [S |-> [S EXCEPT !.heap[S.params[i].ref] = Tail(@)], ret |-> TRUE]
        ELSE [S |-> [S EXCEPT !.params = mapDelete(S.params, key)], ret |-> i # 0]

\* delete returns what Map.prototype.delete returns: whether the key was present.
delete(S, key) == [S |-> [S EXCEPT !.params = mapDelete(S.params, key)],
                   ret |-> mapHas(S.params, key)]

\* keys.sort(): insertion of each key into an ascending sequence (the keys of a Map are distinct).
RECURSIVE insertSorted(_, _)
insertSorted(k, ks) ==
    IF ks = <<>> THEN <<k>>
    ELSE IF strLess(k, ks[1]) THEN <<k>> \o ks
    ELSE <<ks[1]>> \o insertSorted(k, Tail(ks))

RECURSIVE sortKeys(_)
sortKeys(ks) == IF ks = <<>> THEN <<>> ELSE insertSorted(ks[1], sortKeys(Tail(ks)))

sort(S) ==
    LET ks == sortKeys([i \in 1..Len(S.params) |-> S.params[i].key])
    IN  [S EXCEPT !.params = [i \in 1..Len(ks) |-> S.params[mapIndex(S.params, ks[i])]]]

----------------------------------------------------------------------------
(* The entries() generator, one next() at a time.  It walks a Map with a   *)
(* Map iterator (index mi) and, inside an array value, an array iterator   *)
(* (array arr, index ai).  Both iterators are live: they see what is added *)
(* to or removed from the object they walk.  src is "live" while the Map   *)
(* walked is still this.params, and "old" once sort() has replaced         *)
(* this.params by a new Map; omap is then the Map the generator walks.     *)

NoGen == [src |-> "live", omap |-> <<>>, mi |-> 1, inArr |-> FALSE, key |-> <<>>, arr |-> 0, ai |-> 0]

genMap(g, S) == IF g.src = "live" THEN S.params ELSE g.omap

\* A generator that yields only the first value of a key that has several.
genNextFirstOfArray(g, S) ==
    IF g.mi > Len(genMap(g, S)) THEN [g |-> g, done |-> TRUE, pair |-> <<>>]
    ELSE LET e == genMap(g, S)[g.mi]
         IN  [g |-> [g EXCEPT !.mi = @ + 1], done |-> FALSE,
              pair |-> <<e.key, IF e.isArray THEN S.heap[e.ref][1] ELSE e.str>>]

\* A generator that never moves on from an entry with a single value.
genNextStuck(g, S) ==
    IF g.mi > Len(genMap(g, S)) THEN [g |-> g, done |-> TRUE, pair |-> <<>>]
    ELSE LET e == genMap(g, S)[g.mi]
         IN  [g |-> IF e.isArray THEN [g EXCEPT !.mi = @ + 1] ELSE g, done |-> FALSE,
              pair |-> <<e.key, IF e.isArray THEN S.heap[e.ref][1] ELSE e.str>>]

RECURSIVE genNext(_, _)
genNext(g, S) ==
    IF g.inArr THEN
        IF g.ai <= Len(S.heap[g.arr])
        THEN [g |-> [g EXCEPT !.ai = @ + 1], done |-> FALSE, pair |-> <<g.key, S.heap[g.arr][g.ai]>>]
        ELSE genNext([g EXCEPT !.inArr = FALSE, !.key = <<>>, !.arr = 0, !.ai = 0], S)
    ELSE IF g.mi > Len(genMap(g, S)) THEN [g |-> g, done |-> TRUE, pair |-> <<>>]
    ELSE LET e == genMap(g, S)[g.mi]
         IN  IF e.isArray
             THEN genNext([g EXCEPT !.mi = @ + 1, !.inArr = TRUE, !.key = e.key, !.arr = e.ref, !.ai = 1], S)
             ELSE [g |-> [g EXCEPT !.mi = @ + 1], done |-> FALSE, pair |-> <<e.key, e.str>>]

\* A generator consumed to its end while the store stays S: what Array.from makes of it.
RECURSIVE drain(_, _)
drain(g, S) ==
    LET r == genNext(g, S)
    IN  IF r.done THEN <<>> ELSE <<r.pair>> \o drain(r.g, S)

\* [Symbol.iterator]() returns this.entries().
iterator(S) == drain(NoGen, S)

\* keys() yielding each key of the Map once.
keysOfMap(S) == [i \in 1..Len(S.params) |-> S.params[i].key]

\* for (const [k] of this.entries()) yield k
RECURSIVE keysFrom(_, _)
keysFrom(g, S) ==
    LET r == genNext(g, S)
    IN  IF r.done THEN <<>> ELSE <<r.pair[1]>> \o keysFrom(r.g, S)

keys(S) == keysFrom(NoGen, S)

\* for (const [_, v] of this.entries()) yield v
RECURSIVE valuesFrom(_, _)
valuesFrom(g, S) ==
    LET r == genNext(g, S)
    IN  IF r.done THEN <<>> ELSE <<r.pair[2]>> \o valuesFrom(r.g, S)

values(S) == valuesFrom(NoGen, S)

\* The generator as entries() returns it: nothing has run, this.params is read by the first next().
NewGen == [NoGen EXCEPT !.src = "unstarted"]

\* The first next() starts the loop over this.params.
genStarted(g) == IF g.src = "unstarted" THEN [g EXCEPT !.src = "live"] ELSE g

\* A live Map iterator that has passed the deleted entry (at position i) keeps pointing at the
\* same next entry.
genAfterDelete(g, i) ==
    IF g.src = "live" /\ i # 0 /\ i < g.mi THEN [g EXCEPT !.mi = @ - 1] ELSE g

\* A generator walking this.params keeps walking the Map m that sort() replaces.
genAfterSort(g, m) ==
    IF g.src = "live" THEN [g EXCEPT !.src = "old", !.omap = m] ELSE g

\* The array objects still referred to: by the Map, by a generator's Map or by its array iterator.
mapRefs(m) == {m[i].ref : i \in {j \in 1..Len(m) : m[j].isArray}}

liveRefs(m, it) ==
    mapRefs(m) \cup
    (IF it.state = "running"
     THEN mapRefs(it.gen.omap) \cup (IF it.gen.inArr THEN {it.gen.arr} ELSE {})
     ELSE {})

\* The arrays a generator refers to.
genRefs(g) == mapRefs(g.omap) \cup (IF g.inArr THEN {g.arr} ELSE {})

\* All arrays referred to: by the store, by the forEach in progress, by the consumer of an
\* entries() sequence and by the caller holding a getAll result.
roots(m, it, c, hd) ==
    liveRefs(m, it) \cup (IF c.state = "running" THEN genRefs(c.gen) ELSE {})
                    \cup (IF hd.ref # 0 THEN {hd.ref} ELSE {})

\* Unreferenced arrays are dropped from the heap.
collect(h, refs) == [id \in (DOMAIN h) \cap refs |-> h[id]]

----------------------------------------------------------------------------
(* forEach.                                                                *)

\* The callback invoked with the key before the value.
forEachArgsKeyFirst(k, v, context) == <<k, v, context>>

\* f.call(context, v, k, context): the arguments the callback receives.
forEachArgs(k, v, context) == <<v, k, context>>

\* if (typeof context === 'undefined') context = this
forEachContext(context) == IF context = "undefined" THEN "this" ELSE context

\* What a callback (or the body of a loop over entries()) does to the store when it is given
\* the pair (k, v), and what becomes of the generator g being consumed:
\*   "noop"      nothing
\*   "delete"    this.delete(k)
\*   "sort"      this.sort()
\*   "set"       if (this.has(k)) this.set(k, 'z')
\*   "reappend"  this.delete(k); this.append(k, v)
\* mid is the Map after the first call the callback makes.
callback(f, S, g, k, v) ==
    IF f = "delete" THEN [S |-> delete(S, k).S, g |-> genAfterDelete(g, mapIndex(S.params, k)),
                          mid |-> delete(S, k).S.params]
    ELSE IF f = "sort" THEN [S |-> sort(S), g |-> genAfterSort(g, S.params), mid |-> sort(S).params]
    ELSE IF f = "set" THEN [S |-> IF has(S, k) THEN set(S, k, JSStr(<<122>>)) ELSE S, g |-> g,
                            mid |-> S.params]
    ELSE IF f = "reappend" THEN [S |-> append(delete(S, k).S, k, JSStr(v)),
                                 g |-> genAfterDelete(g, mapIndex(S.params, k)),
                                 mid |-> delete(S, k).S.params]
    ELSE [S |-> S, g |-> g, mid |-> S.params]

\* One round of `for (const [k, v] of this.entries()) f(v, k)`: next() on the generator g, then
\* the callback on the pair yielded.
loopRound(f, S, g) ==
    LET r == genNext(genStarted(g), S)
    IN  IF r.done THEN [done |-> TRUE, S |-> S, g |-> NoGen, pair |-> <<>>, mid |-> S.params]
        ELSE [done |-> FALSE, S |-> callback(f, S, r.g, r.pair[1], r.pair[2]).S,
              g |-> callback(f, S, r.g, r.pair[1], r.pair[2]).g, pair |-> r.pair,
              mid |-> callback(f, S, r.g, r.pair[1], r.pair[2]).mid]

----------------------------------------------------------------------------
(* Inputs and bounds.                                                      *)

MaxOps == 2
MaxSegments == 3

SeedQueries == {
    <<>>,                                                               \* ""
    <<63, 97, 61>>,                                                     \* "?a="
    <<98, 61, 50, 38, 98, 61, 49, 38, 99, 61, 51, 38, 97, 61, 52>>,     \* "b=2&b=1&c=3&a=4"
    <<97, 61, 49, 38, 98, 61, 50, 38, 97, 61, 51>>,                     \* "a=1&b=2&a=3"
    <<97, 38, 97, 61, 120, 43, 121>>,                                   \* "a&a=x+y"
    <<97, 61, 37>>                                                      \* "a=%"
}

KeyInputs == {
    <<97>>,        \* "a"
    <<98>>,        \* "b"
    <<66, 61>>     \* "B="
}

ValueInputs == {
    JSStr(<<>>),                            \* ''
    JSStr(<<43, 61, 38, 37, 32, 233>>),     \* '+=&% é'
    JSStr(<<55296>>),                       \* '\uD800', a lone surrogate
    JSNum(11),                              \* 11
    JSArr(<< <<120>>, <<121>> >>)           \* ['x', 'y']
}

ContextInputs == {"undefined", "ctx"}

\* The callbacks handed to forEach and the bodies of loops over entries().
Callbacks == {"noop", "delete", "sort", "set", "reappend"}

\* The strings a caller pushes onto an array it got from getAll.
PushInputs == {
    <<>>,          \* ''
    <<122>>        \* 'z'
}

Segments == {
    <<>>,                                   \* ""
    <<97>>,                                 \* "a"
    <<97, 61, 49>>,                         \* "a=1"
    <<97, 61>>,                             \* "a="
    <<61>>,                                 \* "="
    <<98, 61, 50>>,                         \* "b=2"
    <<97, 61, 49, 61, 50>>,                 \* "a=1=2"
    <<97, 61, 49, 61, 37>>,                 \* "a=1=%"
    <<97, 43, 98>>,                         \* "a+b"
    <<97, 43, 61, 37, 50, 48>>,             \* "a+=%20"
    <<43, 37, 50, 66, 61, 37, 50, 98, 43>>, \* "+%2B=%2b+"
    <<37, 61, 49>>,                         \* "%=1"
    <<37, 122, 122>>,                       \* "%zz"
    <<37, 67, 51, 37, 65, 57, 61, 49>>,     \* "%C3%A9=1"
    <<97, 61, 37, 69, 57>>                  \* "a=%E9"
}

\* The queries of at most MaxSegments segments, with and without a leading '?'.
ParseQueries ==
    LET bare == {join(f, AMP) : f \in UNION {[1..n -> Segments] : n \in 0..MaxSegments}}
    IN  bare \cup {<<QMARK>> \o q : q \in bare}

----------------------------------------------------------------------------
(* The state machine.                                                      *)

this == [params |-> params, heap |-> heap]

Idle == [state |-> "idle", context |-> "undefined", f |-> "record", round |-> 0, gen |-> NoGen, mutated |-> FALSE, start |-> <<>>]

NoConsumer == [state |-> "idle", f |-> "record", round |-> 0, gen |-> NoGen, mutated |-> FALSE, start |-> <<>>, out |-> <<>>]

NotHeld == [ref |-> 0, key |-> <<>>, expect |-> <<>>, store |-> EmptyStore]

\* The keys of the Map m in the order they were first recorded, given that order before the
\* call: keys no longer in m are dropped, keys new in m come last.
recordedKeys(ks, m) ==
    SelectSeq(ks, LAMBDA k : mapHas(m, k)) \o
    SelectSeq([i \in 1..Len(m) |-> m[i].key], LAMBDA k : \A j \in 1..Len(ks) : ks[j] # k)

\* The keys of the addValue calls lg in the order of their first call.
RECURSIVE firstRecordedFrom(_, _)
firstRecordedFrom(lg, i) ==
    IF i > Len(lg) THEN <<>>
    ELSE (IF \E j \in 1..(i - 1) : lg[j][1] = lg[i][1] THEN <<>> ELSE <<lg[i][1]>>)
         \o firstRecordedFrom(lg, i + 1)

NoCall == [op |-> "none", key |-> <<>>, value |-> JSUndefined, ret |-> FALSE, before |-> <<>>]

InitWith(queries) ==
    /\ original \in queries
    /\ params = <<>>
    /\ heap = <<>>
    /\ pc = "new"
    /\ log = <<>>
    /\ iter = Idle
    /\ calls = <<>>
    /\ last = NoCall
    /\ nops = 0
    /\ cons = NoConsumer
    /\ held = NotHeld
    /\ recorded = [keys |-> <<>>, sorted |-> FALSE]

Init == InitWith(SeedQueries)

InitParse == InitWith(ParseQueries)

\* new SearchParams(original)
Construct ==
    /\ pc = "new"
    /\ LET r == parse(EmptyStore, original)
       IN  /\ pc' = IF r.threw THEN "threw" ELSE "ready"
           /\ params' = r.S.params
           /\ heap' = r.S.heap
           /\ log' = r.log
           /\ recorded' = [keys |-> IF r.threw THEN <<>> ELSE firstRecordedFrom(r.log, 1),
                           sorted |-> FALSE]
    /\ UNCHANGED <<original, iter, calls, last, nops, cons, held>>

\* A public method changes the store to S; the generator of the forEach in progress, if any,
\* has become g and that of the consumer of an entries() sequence, if any, has become c.
Mutate(S, g, c, call) ==
    LET it == IF iter.state = "running" THEN [iter EXCEPT !.gen = g, !.mutated = TRUE] ELSE iter
        co == IF cons.state = "running" THEN [cons EXCEPT !.gen = c, !.mutated = TRUE] ELSE cons
    IN  /\ params' = S.params
        /\ heap' = collect(S.heap, roots(S.params, it, co, held))
        /\ iter' = it
        /\ cons' = co
        /\ last' = call
        /\ nops' = nops + 1
        /\ recorded' = [keys |-> recordedKeys(recorded.keys, S.params),
                        sorted |-> recorded.sorted \/ call.op = "sort"]
        /\ UNCHANGED <<original, pc, log, calls, held>>

CanCall == pc = "ready" /\ nops < MaxOps

AppendOp(key, value) ==
    /\ CanCall
    /\ Mutate(append(this, key, value), iter.gen, cons.gen,
              [op |-> "append", key |-> key, value |-> value, ret |-> FALSE, before |-> entries(this)])

SetOp(key, value) ==
    /\ CanCall
    /\ Mutate(set(this, key, value), iter.gen, cons.gen,
              [op |-> "set", key |-> key, value |-> value, ret |-> FALSE, before |-> entries(this)])

DeleteOp(key) ==
    /\ CanCall
    /\ LET r == delete(this, key)
           i == mapIndex(params, key)
       IN  Mutate(r.S, genAfterDelete(iter.gen, i), genAfterDelete(cons.gen, i),
                  [op |-> "delete", key |-> key, value |-> JSUndefined, ret |-> r.ret, before |-> entries(this)])

SortOp ==
    /\ CanCall
    /\ Mutate(sort(this), genAfterSort(iter.gen, params), genAfterSort(cons.gen, params),
              [op |-> "sort", key |-> <<>>, value |-> JSUndefined, ret |-> FALSE, before |-> entries(this)])

\* forEach(f, context) up to the first invocation of f (or to its return, on an empty store).
ForEachCall(context) ==
    /\ CanCall
    /\ iter.state # "running"
    /\ LET r == genNext(NoGen, this)
           ctx == forEachContext(context)
       IN  /\ iter' = [state |-> IF r.done THEN "done" ELSE "running", context |-> context,
                       f |-> "record", round |-> 0, gen |-> IF r.done THEN NoGen ELSE r.g, mutated |-> FALSE, start |-> entries(this)]
           /\ calls' = IF r.done THEN <<>> ELSE <<forEachArgs(r.pair[1], r.pair[2], ctx)>>
    /\ last' = [op |-> "forEach", key |-> <<>>, value |-> JSUndefined, ret |-> FALSE, before |-> entries(this)]
    /\ nops' = nops + 1
    /\ UNCHANGED <<original, params, heap, pc, log, cons, held, recorded>>

\* The callback returned: the loop asks the generator for the next pair and invokes f, or ends.
ForEachStep ==
    /\ iter.state = "running"
    /\ LET r == genNext(iter.gen, this)
           it == IF r.done THEN [iter EXCEPT !.state = "done", !.gen = NoGen]
                 ELSE [iter EXCEPT !.gen = r.g]
       IN  /\ iter' = it
           /\ calls' = IF r.done THEN calls
                       ELSE Append(calls, forEachArgs(r.pair[1], r.pair[2], forEachContext(iter.context)))
           /\ heap' = collect(heap, roots(params, it, cons, held))
    /\ UNCHANGED <<original, params, pc, log, last, nops, cons, held, recorded>>

\* seq = entries(): the generator is created, none of its code has run.
EntriesCall ==
    /\ CanCall
    /\ cons.state # "running"
    /\ cons' = [state |-> "running", f |-> "record", round |-> 0, gen |-> NewGen, mutated |-> FALSE,
                start |-> entries(this), out |-> <<>>]
    /\ last' = [op |-> "entries", key |-> <<>>, value |-> JSUndefined, ret |-> FALSE, before |-> entries(this)]
    /\ nops' = nops + 1
    /\ UNCHANGED <<original, params, heap, pc, log, iter, calls, held, recorded>>

\* seq.next(): the consumer takes the next pair, or learns that the sequence has ended.
EntriesNext ==
    /\ cons.state = "running"
    /\ LET r == genNext(genStarted(cons.gen), this)
           co == IF r.done THEN [cons EXCEPT !.state = "done", !.gen = NoGen]
                 ELSE [cons EXCEPT !.gen = r.g, !.out = Append(@, r.pair)]
       IN  /\ cons' = co
           /\ heap' = collect(heap, roots(params, iter, co, held))
    /\ UNCHANGED <<original, params, pc, log, iter, calls, last, nops, held, recorded>>

\* held = getAll(key): the caller keeps the array returned.
GetAllCall(key) ==
    /\ CanCall
    /\ held.ref = 0
    /\ LET r == getAllObject(this, key)
           hd == [ref |-> r.ref, key |-> key, expect |-> r.heap[r.ref], store |-> this]
       IN  /\ held' = hd
           /\ heap' = collect(r.heap, roots(params, iter, cons, hd))
    /\ last' = [op |-> "getAll", key |-> key, value |-> JSUndefined, ret |-> FALSE, before |-> entries(this)]
    /\ nops' = nops + 1
    /\ UNCHANGED <<original, params, pc, log, iter, calls, cons, recorded>>

\* held.push(value): the caller changes the array it holds.
HeldPush(value) ==
    /\ CanCall
    /\ held.ref # 0
    /\ heap' = [heap EXCEPT ![held.ref] = Append(@, value)]
    /\ held' = [held EXCEPT !.expect = Append(@, value), !.store = this]
    /\ last' = [op |-> "push", key |-> held.key, value |-> JSStr(value), ret |-> FALSE, before |-> entries(this)]
    /\ nops' = nops + 1
    /\ UNCHANGED <<original, params, pc, log, iter, calls, cons, recorded>>

Next ==
    \/ Construct
    \/ \E key \in KeyInputs, value \in ValueInputs : AppendOp(key, value)
    \/ \E key \in KeyInputs, value \in ValueInputs : SetOp(key, value)
    \/ \E key \in KeyInputs : DeleteOp(key)
    \/ SortOp
    \/ \E context \in ContextInputs : ForEachCall(context)
    \/ ForEachStep
    \/ EntriesCall
    \/ EntriesNext
    \/ \E key \in KeyInputs : GetAllCall(key)
    \/ \E value \in PushInputs : HeldPush(value)

Spec == Init /\ [][Next]_vars

----------------------------------------------------------------------------
(* Loops whose callback or body changes the store it iterates.  The calls  *)
(* are not counted: a loop runs for as long as its generator yields.       *)

\* forEach(f): the loop is entered, the generator is created.
ForEachLoopCall(f) ==
    /\ pc = "ready"
    /\ iter.state = "idle"
    /\ cons.state # "running"
    /\ iter' = [state |-> "running", context |-> "undefined", f |-> f, round |-> 0, gen |-> NewGen,
                mutated |-> FALSE, start |-> entries(this)]
    /\ calls' = <<>>
    /\ last' = [op |-> "forEach", key |-> <<>>, value |-> JSUndefined, ret |-> FALSE, before |-> entries(this)]
    /\ UNCHANGED <<original, params, heap, pc, log, nops, cons, held, recorded>>

\* One round of the loop of forEach; calls holds the arguments of the invocation made.
ForEachLoopStep ==
    /\ pc = "ready"
    /\ iter.state = "running"
    /\ iter.f \in Callbacks
    /\ LET r == loopRound(iter.f, this, iter.gen)
           it == IF r.done THEN [iter EXCEPT !.state = "done", !.gen = NoGen]
                 ELSE [iter EXCEPT !.gen = r.g, !.mutated = @ \/ iter.f # "noop", !.round = 1 - @]
       IN  /\ iter' = it
           /\ params' = r.S.params
           /\ heap' = collect(r.S.heap, roots(r.S.params, it, cons, held))
           /\ calls' = IF r.done THEN <<>>
                       ELSE <<forEachArgs(r.pair[1], r.pair[2], forEachContext(iter.context))>>
           /\ recorded' = [keys |-> recordedKeys(recordedKeys(recorded.keys, r.mid), r.S.params),
                           sorted |-> recorded.sorted \/ (~r.done /\ iter.f = "sort")]
    /\ UNCHANGED <<original, pc, log, last, nops, cons, held>>

\* for (const [k, v] of this.entries()) { ... }: the loop is entered, the generator is created.
EntriesLoopCall(f) ==
    /\ pc = "ready"
    /\ iter.state # "running"
    /\ cons.state = "idle"
    /\ cons' = [state |-> "running", f |-> f, round |-> 0, gen |-> NewGen, mutated |-> FALSE,
                start |-> entries(this), out |-> <<>>]
    /\ last' = [op |-> "entries", key |-> <<>>, value |-> JSUndefined, ret |-> FALSE, before |-> entries(this)]
    /\ UNCHANGED <<original, params, heap, pc, log, iter, calls, nops, held, recorded>>

\* One round of that loop; out holds the pair the body was given.
EntriesLoopStep ==
    /\ pc = "ready"
    /\ cons.state = "running"
    /\ cons.f \in Callbacks
    /\ LET r == loopRound(cons.f, this, cons.gen)
           co == IF r.done THEN [cons EXCEPT !.state = "done", !.gen = NoGen, !.out = <<>>]
                 ELSE [cons EXCEPT !.gen = r.g, !.mutated = @ \/ cons.f # "noop", !.out = <<r.pair>>,
                                   !.round = 1 - @]
       IN  /\ cons' = co
           /\ params' = r.S.params
           /\ heap' = collect(r.S.heap, roots(r.S.params, iter, co, held))
           /\ recorded' = [keys |-> recordedKeys(recordedKeys(recorded.keys, r.mid), r.S.params),
                           sorted |-> recorded.sorted \/ (~r.done /\ cons.f = "sort")]
    /\ UNCHANGED <<original, pc, log, iter, calls, last, nops, held>>

LoopSteps == ForEachLoopStep \/ EntriesLoopStep

NextLoop ==
    \/ Construct
    \/ \E f \in Callbacks : ForEachLoopCall(f)
    \/ ForEachLoopStep
    \/ \E f \in Callbacks : EntriesLoopCall(f)
    \/ EntriesLoopStep

\* A callback that returns is followed by the next round of the loop.
SpecLoop == Init /\ [][NextLoop]_vars /\ WF_vars(LoopSteps)

NextParse == Construct

SpecParse == InitParse /\ [][NextParse]_vars

----------------------------------------------------------------------------
(* Vocabulary of the properties.                                           *)

\* The pairs of es whose key is k, and the pairs whose key is not k, in the order of es.
pairsOf(es, k) == SelectSeq(es, LAMBDA p : p[1] = k)
othersOf(es, k) == SelectSeq(es, LAMBDA p : p[1] # k)
valuesOf(es, k) == [i \in 1..Len(pairsOf(es, k)) |-> pairsOf(es, k)[i][2]]

\* The keys asked about: those a caller passes and those the store holds or held.
AskedKeys ==
    KeyInputs \cup {entries(this)[i][1] : i \in 1..Len(entries(this))}
              \cup {last.before[i][1] : i \in 1..Len(last.before)}

\* s <= t in lexicographic order of code units, stated without strLess.
LexLeq(s, t) ==
    \/ \E n \in 1..Len(s) :
          /\ n <= Len(t)
          /\ \A j \in 1..(n - 1) : s[j] = t[j]
          /\ s[n] < t[n]
    \/ /\ Len(s) <= Len(t)
       /\ \A j \in 1..Len(s) : s[j] = t[j]

\* Position of the first '=' of a segment; 0 when it has none.
firstEq(seg) ==
    IF \E i \in 1..Len(seg) : seg[i] = EQ
    THEN CHOOSE i \in 1..Len(seg) : seg[i] = EQ /\ \A j \in 1..(i - 1) : seg[j] # EQ
    ELSE 0

\* The text of a segment before its first '=' and the text between its first '=' and its next
\* '=' (or its end): the two texts decoding is applied to.
keyText(seg) == SubSeq(seg, 1, firstEq(seg) - 1)
valueText(seg) ==
    LET rest == SubSeq(seg, firstEq(seg) + 1, Len(seg))
    IN  IF firstEq(rest) = 0 THEN rest ELSE SubSeq(rest, 1, firstEq(rest) - 1)

\* s with every '+' made a space.
spacesForPluses(s) == [i \in 1..Len(s) |-> IF s[i] = PLUS THEN SPACE ELSE s[i]]

\* Every '%' of s starts one of %2B, %2b, %20.
onlyPlusAndSpaceEscapes(s) ==
    \A i \in 1..Len(s) :
        s[i] = PCT => /\ i + 2 <= Len(s)
                      /\ <<s[i + 1], s[i + 2]>> \in {<<50, 66>>, <<50, 98>>, <<50, 48>>}

\* What such a text stands for: %2B and %2b a '+', %20 and '+' a space, anything else itself.
RECURSIVE plainText(_)
plainText(s) ==
    IF s = <<>> THEN <<>>
    ELSE IF s[1] = PCT THEN
        (IF s[3] = 48 THEN <<SPACE>> ELSE <<PLUS>>) \o plainText(SubSeq(s, 4, Len(s)))
    ELSE IF s[1] = PLUS THEN <<SPACE>> \o plainText(Tail(s))
    ELSE <<s[1]>> \o plainText(Tail(s))

\* The keys of the blocks of es: the key of every pair that does not follow a pair of its key.
blockKeys(es) ==
    LET starts == {i \in 1..Len(es) : i = 1 \/ es[i - 1][1] # es[i][1]}
        nth(n) == CHOOSE i \in starts : Cardinality({j \in starts : j < i}) = n - 1
    IN  [n \in 1..Cardinality(starts) |-> es[nth(n)][1]]

\* The pairs of es that share a key are adjacent.
grouped(es) ==
    \A i, j \in 1..Len(es) :
        (i < j /\ es[i][1] = es[j][1]) => \A m \in i..j : es[m][1] = es[i][1]

\* The segments the constructor walks for the query it was given.
segmentsOf(query) == IF Len(trimQuery(query)) = 0 THEN <<>> ELSE split(trimQuery(query), AMP)

----------------------------------------------------------------------------
(* C1: for every key, get returns the value of the first pair of entries() *)
(* with that key, also when that value is the empty string, and null only  *)
(* when no pair has the key.                                               *)
GetReturnsFirstValueOrNull ==
    pc = "ready" =>
        \A k \in AskedKeys :
            get(this, k) = IF pairsOf(entries(this), k) = <<>> THEN JSNull
                           ELSE JSString(pairsOf(entries(this), k)[1][2])

(* C2: for every key, getAll is the sequence of the values of the pairs of *)
(* entries() with that key, and is empty only when has(key) is false.      *)
GetAllReturnsAllValues ==
    pc = "ready" =>
        \A k \in AskedKeys :
            /\ getAll(this, k) = valuesOf(entries(this), k)
            /\ (getAll(this, k) = <<>> => ~has(this, k))

(* C3: the constructor records, for every segment that contains '=', the   *)
(* decoded text before the first '=' as key and the decoded text of        *)
(* everything after the first '=' as value.                                *)
SegmentSplitAtFirstEq ==
    pc = "ready" =>
        \A i \in 1..Len(segmentsOf(original)) :
            LET seg == segmentsOf(original)[i]
                p == firstEq(seg)
                k == decode(SubSeq(seg, 1, p - 1))
                v == decode(SubSeq(seg, p + 1, Len(seg)))
            IN  p # 0 => /\ ~k.threw
                         /\ ~v.threw
                         /\ i <= Len(log)
                         /\ log[i] = <<k.str, v.str>>

(* C4: after construction entries() yields the recorded pairs in the order *)
(* their segments were met in the query.                                   *)
EntriesInEncounterOrder ==
    pc = "ready" => entries(this) = log

(* C5: after set(k, v) entries() holds exactly one pair with key k, its    *)
(* value is String(v), and the pairs of the other keys are as before, in   *)
(* the same order.                                                         *)
SetReplacesAllValues ==
    (pc = "ready" /\ last.op = "set") =>
        /\ pairsOf(entries(this), last.key) = << <<last.key, String(last.value)>> >>
        /\ othersOf(entries(this), last.key) = othersOf(last.before, last.key)

SetReplacedSeveralValues ==
    /\ pc = "ready"
    /\ last.op = "set"
    /\ Len(pairsOf(last.before, last.key)) >= 2
    /\ othersOf(last.before, last.key) # <<>>
    /\ last.value.t = "number"

(* C6: after append(k, v) the values of k are its previous values in their *)
(* previous order followed by String(v); the pairs of the other keys are   *)
(* as before; a key that was absent becomes the last key, with the single  *)
(* value String(v).                                                        *)
AppendAddsLastValue ==
    (pc = "ready" /\ last.op = "append") =>
        /\ valuesOf(entries(this), last.key) =
               Append(valuesOf(last.before, last.key), String(last.value))
        /\ othersOf(entries(this), last.key) = othersOf(last.before, last.key)
        /\ (pairsOf(last.before, last.key) = <<>> =>
               entries(this) = Append(last.before, <<last.key, String(last.value)>>))

AppendedAfterEmptyString ==
    /\ pc = "ready"
    /\ last.op = "append"
    /\ valuesOf(last.before, last.key) = << <<>> >>
    /\ othersOf(last.before, last.key) # <<>>
    /\ last.value.t = "array"

(* C7: delete(k) returns true exactly when k had a value; afterwards       *)
(* has(k) is false and entries() holds no pair with key k, and the pairs   *)
(* of the other keys are as before; deleting an absent key returns false   *)
(* and changes nothing.                                                    *)
DeleteRemovesKey ==
    (pc = "ready" /\ last.op = "delete") =>
        /\ last.ret = (pairsOf(last.before, last.key) # <<>>)
        /\ ~has(this, last.key)
        /\ pairsOf(entries(this), last.key) = <<>>
        /\ othersOf(entries(this), last.key) = othersOf(last.before, last.key)
        /\ (pairsOf(last.before, last.key) = <<>> => entries(this) = last.before)

DeletedSeveralValues ==
    /\ pc = "ready"
    /\ last.op = "delete"
    /\ last.ret
    /\ Len(pairsOf(last.before, last.key)) >= 2
    /\ othersOf(last.before, last.key) # <<>>

(* C8: after sort() the keys of entries() ascend in lexicographic order,   *)
(* the values of each key keep their order, and the pairs are the same     *)
(* multiset as before.                                                     *)
SortOrdersKeys ==
    (pc = "ready" /\ last.op = "sort") =>
        /\ \A i \in 1..Len(entries(this)) : \A j \in i..Len(entries(this)) :
               LexLeq(entries(this)[i][1], entries(this)[j][1])
        /\ \A k \in AskedKeys : pairsOf(entries(this), k) = pairsOf(last.before, k)
        /\ Len(entries(this)) = Len(last.before)

SortedUnorderedStore ==
    /\ pc = "ready"
    /\ last.op = "sort"
    /\ entries(this) # last.before
    /\ \E k \in AskedKeys : /\ Len(pairsOf(last.before, k)) >= 2
                            /\ pairsOf(last.before, k)[1] # pairsOf(last.before, k)[2]

(* C9: a store built from toString() of a store has the same entries(), in *)
(* the same order, and the same toString().                                *)
ToStringRoundTrips ==
    pc = "ready" =>
        /\ ~toString(this).threw
        /\ LET r == parse(EmptyStore, toString(this).str)
           IN  /\ ~r.threw
               /\ entries(r.S) = entries(this)
               /\ toString(r.S) = toString(this)

(* C10: a forEach whose callback does not change the store invokes it once *)
(* per pair of entries(), in that order, with (value, key, context), the   *)
(* context being the store itself when none was given.                     *)
ForEachVisitsEntries ==
    (iter.state = "done" /\ ~iter.mutated) =>
        /\ Len(calls) = Len(iter.start)
        /\ \A i \in 1..Len(calls) :
               calls[i] = <<iter.start[i][2], iter.start[i][1],
                            IF iter.context = "undefined" THEN "this" ELSE iter.context>>

ForEachVisitedRepeatedKey ==
    /\ iter.state = "done"
    /\ ~iter.mutated
    /\ iter.context = "undefined"
    /\ Len(calls) >= 3
    /\ calls[1][2] = calls[2][2]
    /\ calls[1][1] # calls[2][1]

(* C11, as claimed: a sequence obtained from entries() yields the pairs the *)
(* store held when entries() was called, whatever is done to the store     *)
(* before the sequence is consumed.                                        *)
EntriesSequenceIsSnapshot ==
    cons.state = "done" => cons.out = cons.start

(* C11, amended: the sequence yields the pairs the store held when         *)
(* entries() was called if no append, set, delete or sort is performed     *)
(* between that call and the end of its consumption.                       *)
EntriesSequenceOfUnchangedStore ==
    (cons.state = "done" /\ ~cons.mutated) => cons.out = cons.start

EntriesSequenceConsumed ==
    /\ cons.state = "done"
    /\ ~cons.mutated
    /\ Len(cons.out) >= 3
    /\ cons.out[1][1] = cons.out[2][1]
    /\ cons.out[1][2] # cons.out[2][2]

(* C12: construction throws exactly when the key or the value (everything  *)
(* after the first '=') of some segment containing '=' holds an ill-formed *)
(* percent sequence; otherwise it succeeds.                                *)
ConstructionFailsIffIllFormed ==
    pc # "new" =>
        ((pc = "threw") <=>
            \E i \in 1..Len(segmentsOf(original)) :
                LET seg == segmentsOf(original)[i]
                    p == firstEq(seg)
                IN  /\ p # 0
                    /\ \/ decode(SubSeq(seg, 1, p - 1)).threw
                       \/ decode(SubSeq(seg, p + 1, Len(seg))).threw)

(* C13: every key of the mapping has at least one value (no key maps to an *)
(* empty sequence), and has(k) is true exactly when entries() holds a pair *)
(* with key k.                                                             *)
KeysHaveValues ==
    pc = "ready" =>
        /\ \A i \in 1..Len(params) : params[i].isArray => Len(heap[params[i].ref]) >= 1
        /\ \A i \in 1..Len(params) : pairsOf(entries(this), params[i].key) # <<>>
        /\ \A k \in AskedKeys : has(this, k) <=> (pairsOf(entries(this), k) # <<>>)

KeyWithEmptyStringAfterCalls ==
    /\ pc = "ready"
    /\ nops >= 1
    /\ \E k \in AskedKeys : has(this, k) /\ valuesOf(entries(this), k) = << <<>> >>
    /\ \E k \in AskedKeys : ~has(this, k) /\ pairsOf(last.before, k) # <<>>
    /\ \E i \in 1..Len(params) : params[i].isArray

(* C14: keys() and values() are the first and second projections of        *)
(* entries(), with the same length and order; a key with n values occurs n *)
(* times in keys(); iterating the store itself yields what entries() does. *)
KeysValuesProjectEntries ==
    pc = "ready" =>
        /\ Len(keys(this)) = Len(entries(this))
        /\ Len(values(this)) = Len(entries(this))
        /\ \A i \in 1..Len(entries(this)) :
               /\ keys(this)[i] = entries(this)[i][1]
               /\ values(this)[i] = entries(this)[i][2]
        /\ \A i \in 1..Len(params) :
               Cardinality({j \in 1..Len(keys(this)) : keys(this)[j] = params[i].key})
                   = IF params[i].isArray THEN Len(heap[params[i].ref]) ELSE 1
        /\ iterator(this) = entries(this)

KeysOfRepeatedKeyAfterCalls ==
    /\ pc = "ready"
    /\ nops >= 1
    /\ Len(params) >= 2
    /\ \E i \in 1..Len(params) : params[i].isArray /\ Len(heap[params[i].ref]) >= 3
    /\ Len(keys(this)) >= 4

(* C15: constructing from a non-empty query records, for every segment     *)
(* without '=' (an empty one included), exactly one pair whose key is the  *)
(* text of the segment as written, neither '+' nor '%' being decoded, and  *)
(* whose value is empty; such a segment is never the one that makes        *)
(* construction fail; a successful construction records one pair per       *)
(* segment.                                                                *)
BareSegmentsRecordedLiterally ==
    LET segs == segmentsOf(original)
    IN  /\ pc = "ready" =>
               /\ Len(log) = Len(segs)
               /\ Len(entries(this)) = Len(segs)
               /\ \A i \in 1..Len(segs) :
                      firstEq(segs[i]) = 0 =>
                          /\ log[i] = <<segs[i], <<>>>>
                          /\ <<segs[i], <<>>>> \in {entries(this)[j] : j \in 1..Len(entries(this))}
        /\ pc = "threw" =>
               /\ Len(log) < Len(segs)
               /\ firstEq(segs[Len(log) + 1]) # 0
               /\ \A i \in 1..Len(log) : firstEq(segs[i]) = 0 => log[i] = <<segs[i], <<>>>>

BareSegmentsWithEscapesRecorded ==
    LET segs == segmentsOf(original)
    IN  /\ pc = "ready"
        /\ Len(segs) = 3
        /\ \E i \in 1..Len(segs) : firstEq(segs[i]) = 0 /\ decode(segs[i]).threw
        /\ \E i \in 1..Len(segs) : firstEq(segs[i]) = 0 /\ PLUS \in {segs[i][j] : j \in 1..Len(segs[i])}
        /\ \E i \in 1..Len(segs) : segs[i] = <<>>

(* C16: the key and the value recorded for a segment with '=' are the      *)
(* percent-decoding of the text in which every '+' was first made a space; *)
(* so %2B stands for a '+', never for a space, and both '+' and %20 stand  *)
(* for a space.                                                            *)
PlusThenPercentDecoding ==
    \A i \in 1..Len(log) :
        LET seg == segmentsOf(original)[i]
        IN  firstEq(seg) # 0 =>
                /\ decodeURIComponent(spacesForPluses(keyText(seg))) = Ok(log[i][1])
                /\ decodeURIComponent(spacesForPluses(valueText(seg))) = Ok(log[i][2])
                /\ onlyPlusAndSpaceEscapes(keyText(seg)) => log[i][1] = plainText(keyText(seg))
                /\ onlyPlusAndSpaceEscapes(valueText(seg)) => log[i][2] = plainText(valueText(seg))

EncodedPlusAndSpacesDecoded ==
    /\ pc = "ready"
    /\ \E i \in 1..Len(log) :
           /\ keyText(segmentsOf(original)[i]) = <<43, 37, 50, 66>>          \* "+%2B"
           /\ log[i] = << <<SPACE, PLUS>>, <<PLUS, SPACE>> >>
    /\ \E i \in 1..Len(log) :
           /\ valueText(segmentsOf(original)[i]) = <<37, 50, 48>>            \* "%20"
           /\ log[i][2] = <<SPACE>>

(* C17: the array getAll returned is not shared with the store: it holds   *)
(* what it held when returned plus what the caller pushed, whatever        *)
(* append, set, delete or sort did to the store since; and a push onto it  *)
(* leaves entries(), get and getAll of every key as they were.             *)
GetAllResultNotAliased ==
    /\ held.ref # 0 =>
           /\ held.ref \in DOMAIN heap
           /\ heap[held.ref] = held.expect
           /\ \A i \in 1..Len(params) : params[i].isArray => params[i].ref # held.ref
    /\ (pc = "ready" /\ last.op = "push") =>
           /\ entries(this) = last.before
           /\ \A k \in AskedKeys :
                  /\ get(this, k) = get(held.store, k)
                  /\ getAll(this, k) = getAll(held.store, k)

HeldSeveralValuesThenAppended ==
    /\ pc = "ready"
    /\ held.ref # 0
    /\ Len(held.expect) >= 2
    /\ last.op = "append"
    /\ last.key = held.key
    /\ Len(getAll(this, held.key)) = Len(held.expect) + 1

(* C18, as claimed: in every state the pairs of entries() that share a key *)
(* are adjacent, and the blocks stand in the order in which their keys     *)
(* were first recorded.                                                    *)
BlocksWhereFirstRecorded ==
    pc = "ready" =>
        /\ grouped(entries(this))
        /\ blockKeys(entries(this)) = recorded.keys

(* C18, amended: the pairs that share a key are always adjacent; the       *)
(* blocks stand in the order in which their keys were first recorded as    *)
(* long as sort() has not been called, and right after sort() they stand   *)
(* in ascending order of their keys.                                       *)
BlocksWhereFirstRecordedUnlessSorted ==
    pc = "ready" =>
        /\ grouped(entries(this))
        /\ ~recorded.sorted => blockKeys(entries(this)) = recorded.keys
        /\ last.op = "sort" =>
               \A i \in 1..(Len(blockKeys(entries(this))) - 1) :
                   LexLeq(blockKeys(entries(this))[i], blockKeys(entries(this))[i + 1])

BlockGrewWhereFirstRecorded ==
    /\ pc = "ready"
    /\ ~recorded.sorted
    /\ last.op = "append"
    /\ Len(recorded.keys) >= 2
    /\ last.key = recorded.keys[1]
    /\ Len(pairsOf(last.before, last.key)) = 1
    /\ Len(pairsOf(entries(this), last.key)) = 2
    /\ entries(this)[Len(entries(this))][1] # last.key

(* C19: set(k, v) on a key already present leaves the order of the keys as *)
(* it was, k keeping its place; set(k, v) on an absent key puts k after    *)
(* all the keys there were.                                                *)
SetKeepsKeyPosition ==
    (pc = "ready" /\ last.op = "set") =>
        LET was == blockKeys(last.before)
            now == blockKeys(entries(this))
        IN  IF \E n \in 1..Len(was) : was[n] = last.key
            THEN now = was
            ELSE now = Append(was, last.key)

SetKeyThatWasNotLast ==
    /\ pc = "ready"
    /\ last.op = "set"
    /\ Len(pairsOf(last.before, last.key)) >= 2
    /\ Len(blockKeys(last.before)) >= 3
    /\ \E n \in 1..(Len(blockKeys(last.before)) - 1) : blockKeys(last.before)[n] = last.key
    /\ entries(this)[Len(entries(this))][1] # last.key

(* C20, as claimed: every forEach call and every loop over entries() ends,  *)
(* whatever its callback or body does to the store between steps.          *)
IterationAlwaysEnds ==
    /\ (iter.state = "running") ~> (iter.state = "done")
    /\ (cons.state = "running") ~> (cons.state = "done")

(* C20, amended: a forEach call and a loop over entries() end when the     *)
(* callback or body adds no pair to the store: it may do nothing, delete   *)
(* keys, sort, or set a key that is present.                               *)
IterationEndsUnlessPairsAdded ==
    /\ (iter.state = "running" /\ iter.f # "reappend") ~> (iter.state = "done")
    /\ (cons.state = "running" /\ cons.f # "reappend") ~> (cons.state = "done")

IterationEndedAfterDeletes ==
    /\ iter.state = "done"
    /\ iter.f = "delete"
    /\ iter.mutated
    /\ Len(iter.start) >= 3
    /\ cons.state = "done"
    /\ cons.f = "sort"
    /\ cons.mutated

====
